---- MODULE Spec2Model ----
(***************************************************************************)
(* SenseCAP Indicator D1 firmware: the backend state store (backend.c),    *)
(* the MQTT publish path and data handler of main.c, and the tasks that    *)
(* call into them.                                                         *)
(*                                                                         *)
(* Every backend function is modelled statement by statement: one action   *)
(* per statement that reads or writes the shared statics, named after the  *)
(* function and the source line.  Two tasks may call into the backend: the *)
(* LVGL task ("ui", touch callbacks) and the MQTT event task ("net").      *)
(*   Spec      the calls are made one after the other (a call starts only  *)
(*             when no other call is in progress);                         *)
(*   SpecRead  the same, with an observer that reads both flags between    *)
(*             any two statements;                                         *)
(*   SpecGet   the same as Spec, with calls of the three getters between   *)
(*             any two statements;                                         *)
(*   SpecConc  the two tasks interleave their statements, as backend.c     *)
(*             has no lock or critical section;                            *)
(*   SpecMqtt  the events of the MQTT client, one after the other;         *)
(*   SpecTouch the GT911 touch controller and touch_read_cb;               *)
(*   SpecSim   the simulator's backend_get_water_level;                    *)
(*   SpecBoot  app_main from its entry to the wait for WiFi, under fair    *)
(*             scheduling.                                                 *)
(* All but SpecBoot start where that wait has returned.                    *)
(***************************************************************************)
EXTENDS Integers, Sequences, FiniteSets, TLC

VARIABLES
    bright_state,   \* backend.c: static volatile uint8_t bright_state
    relax_state,    \* backend.c: static volatile uint8_t relax_state
    water_level,    \* backend.c: static volatile uint8_t water_level
    mqtt_client,    \* main.c: static esp_mqtt_client_handle_t mqtt_client
    phase,          \* position of app_main
    pc,             \* per task: the statement it executes next
    frame,          \* per task: the running call's parameters and locals
    log,            \* calls made into the UI layer and the MQTT client this round
    round,          \* the state before, and the calls of, the current round
    snap,           \* the two flags as an observer last read them together
    ret,            \* the last getter return, while no static was written since
    prev,           \* the round before the current one, when it was one set or toggle call
    sim,            \* simulator backend: water_level, direction, the values returned
    touch,          \* touch driver: the GT911 registers, the statics, the data reported
    wifi,           \* the WiFi manager's connection
    bits,           \* main.c: the bits set in s_network_event_group
    boot,           \* the steps app_main has completed, in order
    mqtt_last       \* the last MQTT_EVENT_CONNECTED / MQTT_EVENT_DISCONNECTED event handled

vars == <<bright_state, relax_state, water_level, mqtt_client, phase,
          pc, frame, log, round, snap, ret, prev, sim, touch, wifi, bits, boot,
          mqtt_last>>

----------------------------------------------------------------------------
(* Inputs and bounds *)

Tasks == {"ui", "net"}

\* Arguments passed to backend_set_bright / backend_set_relax (uint8_t).
StateArgs == {0, 1, 2, 255}

\* Integers a caller passes to backend_update_water_level.
LevelArgs == {-1, 0, 42, 100, 101, 150, 255, 256, 356}

\* #define MQTT_TOPIC_WATER_LEVEL "sensecap/indicator/water/level", as its characters.
MQTT_TOPIC_WATER_LEVEL ==
    <<"s", "e", "n", "s", "e", "c", "a", "p", "/", "i", "n", "d", "i", "c",
      "a", "t", "o", "r", "/", "w", "a", "t", "e", "r", "/", "l", "e", "v",
      "e", "l">>

\* Topics of inbound MQTT data events (event->topic, event->topic_len characters):
\* the water-level topic, a proper prefix of it, the empty topic, the topic
\* with one more character, and the light-state topic.
TopicArgs ==
    { MQTT_TOPIC_WATER_LEVEL,
      SubSeq(MQTT_TOPIC_WATER_LEVEL, 1, 24),
      <<>>,
      MQTT_TOPIC_WATER_LEVEL \o <<"s">>,
      SubSeq(MQTT_TOPIC_WATER_LEVEL, 1, 19) \o <<"l", "i", "g", "h", "t", "/", "s", "t", "a", "t", "e">> }

\* Payloads of inbound MQTT data events (event->data, event->data_len characters).
DataArgs ==
    { <<"4", "2">>, <<"1", "5", "0">>, <<"a", "b", "c">>, <<>>, <<"-", "5">>, <<" ", "7", "x">>,
      <<"0", "0", "0", "0", "0", "0", "0", "0", "0", "0", "0", "0", "0", "0", "0", "1", "9">>,
      <<"0", "0", "0", "0", "0", "0", "0", "0", "0", "0", "0", "0", "0", "4", "2">> }

\* The same, for the calls that overlap in SpecConc and for the calls that
\* the readers of SpecRead and SpecGet observe.
ConcStateArgs == {0, 1}
ConcLevelArgs == {150}
ConcTopicArgs == {MQTT_TOPIC_WATER_LEVEL}
ConcDataArgs == {<<"1", "5", "0">>}

\* Most calls that can be in one round of overlapping calls (SpecConc).
MaxOverlap == 2
\* Calls of one getter in a row that are followed.
MaxReads == 2

WATER_LEVEL_DEFAULT == 50
WATER_LEVEL_MAX == 100

\* char data_str[16]: at most 15 payload characters are copied.
DATA_STR_MAX == 15
DATA_STR_SIZE == 16

NULL == "NULL"
CLIENT == "client"

----------------------------------------------------------------------------
(* Pure helpers *)

\* An int argument converted to the uint8_t parameter of the callee.
ToUint8(x) == x % 256

\* One decimal digit, as printf prints it.
Digit(d) ==
    CASE d = 0 -> "0" [] d = 1 -> "1" [] d = 2 -> "2" [] d = 3 -> "3"
      [] d = 4 -> "4" [] d = 5 -> "5" [] d = 6 -> "6" [] d = 7 -> "7"
      [] d = 8 -> "8" [] d = 9 -> "9"

\* printf's %d of a non-negative int.
RECURSIVE FormatD(_)
FormatD(n) == IF n < 10 THEN Digit(n) ELSE FormatD(n \div 10) \o Digit(n % 10)

\* snprintf(payload, 64, "{\"mode\":\"%s\",\"state\":%d}", mode, state)
FormatPayload(mode, state) ==
    "{\"mode\":\"" \o mode \o "\",\"state\":" \o FormatD(state) \o "}"

\* One entry of the log: task t called fn(str, num).
Ev(t, fn, str, num) == [task |-> t, fn |-> fn, str |-> str, num |-> num]

\* publish_light_state without its test of mqtt_client.
publish_light_state_unchecked(t, mode, state) ==
    <<Ev(t, "publish_light_state", mode, state),
      Ev(t, "esp_mqtt_client_publish", FormatPayload(mode, state), 1)>>

\* publish_light_state(mode, state), run by task t: the entries it logs.
publish_light_state(t, mode, state) ==
    <<Ev(t, "publish_light_state", mode, state)>> \o
    IF mqtt_client = NULL
    THEN <<>>
    ELSE <<Ev(t, "esp_mqtt_client_publish", FormatPayload(mode, state), 1)>>

backend_get_bright_state == bright_state
backend_get_relax_state == relax_state
backend_get_water_level == water_level

\* One call of a round: the task, the function, its integer argument, and
\* for the MQTT data handler the topic and the payload of the event.
CallRec(t, op, arg, topic, data) ==
    [task |-> t, op |-> op, arg |-> arg, topic |-> topic, data |-> data]

NoFrame == [op |-> "none", arg |-> 0, state |-> 0, level |-> 0, current |-> 0]

AllIdle == \A t \in Tasks : pc[t] = "idle"

NoRet == [fn |-> "none", val |-> 0, n |-> 0]

NoPrev ==
    [op |-> "none", arg |-> 0, pre |-> [bright |-> 0, relax |-> 0, water |-> 0], log |-> <<>>]

CurState == [bright |-> bright_state, relax |-> relax_state, water |-> water_level]

----------------------------------------------------------------------------
(* State after construction: the static initialisers *)

\* Simulator backend: static int water_level = 75; static int direction = -1;
\* nothing returned yet.
SimInit == [water_level |-> 75, direction |-> -1, returned |-> <<>>]

\* Touch driver: last_x = 0, last_y = 0, last_pressed = false; the GT911
\* reports no touch; LVGL's input data is released at the origin; no call yet.
TouchInit ==
    [status |-> 0, buf |-> <<0, 0, 0, 0>>,
     last_x |-> 0, last_y |-> 0, last_pressed |-> FALSE,
     state |-> "LV_INDEV_STATE_RELEASED", point |-> <<0, 0>>,
     call |-> [n |-> 0, status_ok |-> FALSE, status |-> 0, coord_ok |-> FALSE,
               buf |-> <<0, 0, 0, 0>>, clear_sent |-> FALSE, clear_ok |-> FALSE,
               reg |-> 0, status_after |-> 0]]

\* The steps of app_main up to the return of the wait of line 204.
BootedToWait ==
    <<"nvs_init", "xEventGroupCreate", "display_init", "touch_init", "lv_init",
      "display_driver_init", "touch_driver_init", "ui_init", "wifi_init",
      "wifi_connect", "xEventGroupWaitBits">>

\* Every specification but SpecBoot starts where the wait of line 204 has
\* returned: WIFI_CONNECTED_BIT is set and app_main is about to call mqtt_init.
Init ==
    /\ bright_state = 0
    /\ relax_state = 0
    /\ water_level = WATER_LEVEL_DEFAULT
    /\ mqtt_client = NULL
    /\ phase = "mqtt_init"
    /\ sim = SimInit
    /\ touch = TouchInit
    /\ wifi = "connected"
    /\ bits = {"WIFI_CONNECTED_BIT"}
    /\ boot = BootedToWait
    /\ mqtt_last = "none"
    /\ pc = [t \in Tasks |-> "idle"]
    /\ frame = [t \in Tasks |-> NoFrame]
    /\ log = <<>>
    /\ round = [pre |-> [bright |-> 0, relax |-> 0, water |-> WATER_LEVEL_DEFAULT],
                calls |-> <<>>]
    /\ snap = <<0, 0>>
    /\ ret = NoRet
    /\ prev = NoPrev

----------------------------------------------------------------------------
(* app_main: the part of startup that touches the modelled state *)

\* mqtt_init(): mqtt_client = esp_mqtt_client_init(&mqtt_cfg), which returns
\* NULL when the client cannot be created.
mqtt_init(result) ==
    /\ phase = "mqtt_init"
    /\ mqtt_client' = result
    /\ phase' = "backend_init"
    /\ boot' = Append(boot, "mqtt_init")
    /\ UNCHANGED <<bright_state, relax_state, water_level, pc, frame, log, round, snap,
                   ret, prev, sim, touch, wifi, bits, mqtt_last>>

\* app_main calls backend_init(), then the tasks are created: no task runs
\* during this call.
backend_init ==
    /\ phase = "backend_init"
    /\ bright_state' = 0
    /\ relax_state' = 0
    /\ water_level' = WATER_LEVEL_DEFAULT
    /\ phase' = "xTaskCreatePinnedToCore"
    /\ boot' = Append(boot, "backend_init")
    /\ round' = [pre |-> CurState,
                 calls |-> <<CallRec("main", "backend_init", 0, <<>>, <<>>)>>]
    /\ log' = <<>>
    /\ ret' = NoRet
    /\ UNCHANGED <<mqtt_client, pc, frame, snap, prev, sim, touch, wifi, bits, mqtt_last>>

\* An app_main that creates the tasks right after mqtt_init, without the call
\* of backend_init.
xTaskCreatePinnedToCore_skips_backend_init ==
    /\ phase = "backend_init"
    /\ phase' = "run"
    /\ boot' = boot \o <<"lvgl_task", "network_status">>
    /\ UNCHANGED <<bright_state, relax_state, water_level, mqtt_client, pc, frame, log,
                   round, snap, ret, prev, sim, touch, wifi, bits, mqtt_last>>

\* xTaskCreatePinnedToCore(lvgl_task, ...) and xTaskCreatePinnedToCore(
\* network_status_task, ...): app_main creates the two tasks and deletes
\* itself.  network_status_task only reads the event bits and logs them, so
\* no state of the model changes between the two creations.
xTaskCreatePinnedToCore ==
    /\ phase = "xTaskCreatePinnedToCore"
    /\ phase' = "run"
    /\ boot' = boot \o <<"lvgl_task", "network_status">>
    /\ UNCHANGED <<bright_state, relax_state, water_level, mqtt_client, pc, frame, log,
                   round, snap, ret, prev, sim, touch, wifi, bits, mqtt_last>>

\* The MQTT client was started: esp_mqtt_client_start is the last statement
\* of mqtt_init.
MqttStarted == phase \in {"backend_init", "xTaskCreatePinnedToCore", "run"}

\* The LVGL task was created.
LvglCreated == phase = "run"

----------------------------------------------------------------------------
(* A task enters a backend function *)

\* What is remembered of the round that ends when a new one opens.
Closed ==
    IF /\ Len(round.calls) = 1
       /\ round.calls[1].op \in {"backend_toggle_bright", "backend_toggle_relax",
                                 "backend_set_bright", "backend_set_relax"}
    THEN [op |-> round.calls[1].op, arg |-> round.calls[1].arg, pre |-> round.pre,
          log |-> log]
    ELSE NoPrev

\* Task t calls op with the int argument arg; the callee's uint8_t parameter
\* receives ToUint8(arg).  A call that starts while no call is in progress
\* opens a new round.
Enter(t, op, arg, first) ==
    /\ LvglCreated
    /\ pc[t] = "idle"
    /\ pc' = [pc EXCEPT ![t] = first]
    /\ frame' = [frame EXCEPT ![t] = [op |-> op, arg |-> arg, state |-> ToUint8(arg),
                                      level |-> ToUint8(arg), current |-> 0]]
    /\ IF AllIdle
       THEN /\ round' = [pre |-> CurState, calls |-> <<CallRec(t, op, arg, <<>>, <<>>)>>]
            /\ log' = <<>>
            /\ prev' = Closed
       ELSE /\ round' = [round EXCEPT !.calls = Append(@, CallRec(t, op, arg, <<>>, <<>>))]
            /\ log' = log
            /\ prev' = prev
    /\ UNCHANGED <<bright_state, relax_state, water_level, mqtt_client, phase, snap,
                   ret, sim, touch, wifi, bits, boot, mqtt_last>>

call_set_bright(t, state) == Enter(t, "backend_set_bright", state, "set_bright_45")
call_set_relax(t, state) == Enter(t, "backend_set_relax", state, "set_relax_65")
call_toggle_bright(t) == Enter(t, "backend_toggle_bright", 0, "toggle_bright_83")
call_toggle_relax(t) == Enter(t, "backend_toggle_relax", 0, "toggle_relax_92")
call_update_water_level(t, level) ==
    Enter(t, "backend_update_water_level", level, "update_water_level_124")
call_backend_init(t) == Enter(t, "backend_init", 0, "backend_init_32")

----------------------------------------------------------------------------
(* backend_init(void), called again by a task *)

\* bright_state = 0;
backend_init_32(t) ==
    /\ pc[t] = "backend_init_32"
    /\ bright_state' = 0
    /\ pc' = [pc EXCEPT ![t] = "backend_init_33"]
    /\ ret' = NoRet
    /\ UNCHANGED <<relax_state, water_level, mqtt_client, phase, frame, log, round,
                   snap, prev, sim, touch, wifi, bits, boot, mqtt_last>>

\* relax_state = 0;
backend_init_33(t) ==
    /\ pc[t] = "backend_init_33"
    /\ relax_state' = 0
    /\ pc' = [pc EXCEPT ![t] = "backend_init_34"]
    /\ ret' = NoRet
    /\ UNCHANGED <<bright_state, water_level, mqtt_client, phase, frame, log, round,
                   snap, prev, sim, touch, wifi, bits, boot, mqtt_last>>

\* Line 34 left out: the water level keeps its value.
backend_init_34_keeps_level(t) ==
    /\ pc[t] = "backend_init_34"
    /\ pc' = [pc EXCEPT ![t] = "idle"]
    /\ frame' = [frame EXCEPT ![t] = NoFrame]
    /\ UNCHANGED <<bright_state, relax_state, water_level, mqtt_client, phase, log,
                   round, snap, ret, prev, sim, touch, wifi, bits, boot, mqtt_last>>

\* water_level = 50; and the return.
backend_init_34(t) ==
    /\ pc[t] = "backend_init_34"
    /\ water_level' = WATER_LEVEL_DEFAULT
    /\ pc' = [pc EXCEPT ![t] = "idle"]
    /\ frame' = [frame EXCEPT ![t] = NoFrame]
    /\ ret' = NoRet
    /\ UNCHANGED <<bright_state, relax_state, mqtt_client, phase, log, round, snap,
                   prev, sim, touch, wifi, bits, boot, mqtt_last>>

----------------------------------------------------------------------------
(* backend_set_bright(uint8_t state) *)

\* Line 45 with the test of line 49 left out: the other mode is always cleared.
set_bright_45_always_clears(t) ==
    /\ pc[t] = "set_bright_45"
    /\ bright_state' = frame[t].state
    /\ pc' = [pc EXCEPT ![t] = "set_bright_50"]
    /\ ret' = NoRet
    /\ UNCHANGED <<relax_state, water_level, mqtt_client, phase, frame, log, round,
                   snap, prev, sim, touch, wifi, bits, boot, mqtt_last>>

\* Line 45 storing only a non-zero argument: the mode is never turned off.
set_bright_45_never_off(t) ==
    /\ pc[t] = "set_bright_45"
    /\ bright_state' = IF frame[t].state = 0 THEN bright_state ELSE frame[t].state
    /\ pc' = [pc EXCEPT ![t] = IF frame[t].state # 0 THEN "set_bright_50" ELSE "set_bright_55"]
    /\ ret' = NoRet
    /\ UNCHANGED <<relax_state, water_level, mqtt_client, phase, frame, log, round,
                   snap, prev, sim, touch, wifi, bits, boot, mqtt_last>>

\* bright_state = state; then the test of "if (state != 0)".
set_bright_45(t) ==
    /\ pc[t] = "set_bright_45"
    /\ bright_state' = frame[t].state
    /\ pc' = [pc EXCEPT ![t] = IF frame[t].state # 0 THEN "set_bright_50" ELSE "set_bright_55"]
    /\ ret' = NoRet
    /\ UNCHANGED <<relax_state, water_level, mqtt_client, phase, frame, log, round,
                   snap, prev, sim, touch, wifi, bits, boot, mqtt_last>>

\* Line 50 left out: relax_state keeps its value.
set_bright_50_keeps_relax(t) ==
    /\ pc[t] = "set_bright_50"
    /\ pc' = [pc EXCEPT ![t] = "set_bright_51"]
    /\ UNCHANGED <<bright_state, relax_state, water_level, mqtt_client, phase, frame,
                   log, round, snap, ret, prev, sim, touch, wifi, bits, boot,
                   mqtt_last>>

\* relax_state = 0;
set_bright_50(t) ==
    /\ pc[t] = "set_bright_50"
    /\ relax_state' = 0
    /\ pc' = [pc EXCEPT ![t] = "set_bright_51"]
    /\ ret' = NoRet
    /\ UNCHANGED <<bright_state, water_level, mqtt_client, phase, frame, log, round,
                   snap, prev, sim, touch, wifi, bits, boot, mqtt_last>>

\* Line 51 moved behind the publish: the refresh is the last thing logged.
set_bright_51_refresh_late(t) ==
    /\ pc[t] = "set_bright_51"
    /\ log' = log \o publish_light_state(t, "bright", frame[t].state)
                  \o <<Ev(t, "ui_set_relax_state", "", 0)>>
    /\ pc' = [pc EXCEPT ![t] = "idle"]
    /\ frame' = [frame EXCEPT ![t] = NoFrame]
    /\ UNCHANGED <<bright_state, relax_state, water_level, mqtt_client, phase, round,
                   snap, ret, prev, sim, touch, wifi, bits, boot, mqtt_last>>

\* ui_set_relax_state(0);
set_bright_51(t) ==
    /\ pc[t] = "set_bright_51"
    /\ log' = Append(log, Ev(t, "ui_set_relax_state", "", 0))
    /\ pc' = [pc EXCEPT ![t] = "set_bright_55"]
    /\ UNCHANGED <<bright_state, relax_state, water_level, mqtt_client, phase, frame,
                   round, snap, ret, prev, sim, touch, wifi, bits, boot, mqtt_last>>

\* Line 55 undoing the write of line 45 when there is no client to publish to.
set_bright_55_rolls_back(t) ==
    /\ pc[t] = "set_bright_55"
    /\ log' = log \o publish_light_state(t, "bright", frame[t].state)
    /\ bright_state' = IF mqtt_client = NULL THEN round.pre.bright ELSE bright_state
    /\ pc' = [pc EXCEPT ![t] = "idle"]
    /\ frame' = [frame EXCEPT ![t] = NoFrame]
    /\ ret' = NoRet
    /\ UNCHANGED <<relax_state, water_level, mqtt_client, phase, round, snap, prev, sim,
                   touch, wifi, bits, boot, mqtt_last>>

\* Line 55 publishing under the other mode's name.
set_bright_55_wrong_mode(t) ==
    /\ pc[t] = "set_bright_55"
    /\ log' = log \o publish_light_state(t, "relax", frame[t].state)
    /\ pc' = [pc EXCEPT ![t] = "idle"]
    /\ frame' = [frame EXCEPT ![t] = NoFrame]
    /\ UNCHANGED <<bright_state, relax_state, water_level, mqtt_client, phase, round,
                   snap, ret, prev, sim, touch, wifi, bits, boot, mqtt_last>>

\* publish_light_state("bright", state); and return.
set_bright_55(t) ==
    /\ pc[t] = "set_bright_55"
    /\ log' = log \o publish_light_state(t, "bright", frame[t].state)
    /\ pc' = [pc EXCEPT ![t] = "idle"]
    /\ frame' = [frame EXCEPT ![t] = NoFrame]
    /\ UNCHANGED <<bright_state, relax_state, water_level, mqtt_client, phase, round,
                   snap, ret, prev, sim, touch, wifi, bits, boot, mqtt_last>>

----------------------------------------------------------------------------
(* backend_set_relax(uint8_t state) *)

\* Line 65 adding the argument to the flag instead of storing it.
set_relax_65_accumulates(t) ==
    /\ pc[t] = "set_relax_65"
    /\ relax_state' = ToUint8(relax_state + frame[t].state)
    /\ pc' = [pc EXCEPT ![t] = IF frame[t].state # 0 THEN "set_relax_70" ELSE "set_relax_75"]
    /\ ret' = NoRet
    /\ UNCHANGED <<bright_state, water_level, mqtt_client, phase, frame, log, round,
                   snap, prev, sim, touch, wifi, bits, boot, mqtt_last>>

\* relax_state = state; then the test of "if (state != 0)".
set_relax_65(t) ==
    /\ pc[t] = "set_relax_65"
    /\ relax_state' = frame[t].state
    /\ pc' = [pc EXCEPT ![t] = IF frame[t].state # 0 THEN "set_relax_70" ELSE "set_relax_75"]
    /\ ret' = NoRet
    /\ UNCHANGED <<bright_state, water_level, mqtt_client, phase, frame, log, round,
                   snap, prev, sim, touch, wifi, bits, boot, mqtt_last>>

\* bright_state = 0;
set_relax_70(t) ==
    /\ pc[t] = "set_relax_70"
    /\ bright_state' = 0
    /\ pc' = [pc EXCEPT ![t] = "set_relax_71"]
    /\ ret' = NoRet
    /\ UNCHANGED <<relax_state, water_level, mqtt_client, phase, frame, log, round,
                   snap, prev, sim, touch, wifi, bits, boot, mqtt_last>>

\* ui_set_bright_state(0);
set_relax_71(t) ==
    /\ pc[t] = "set_relax_71"
    /\ log' = Append(log, Ev(t, "ui_set_bright_state", "", 0))
    /\ pc' = [pc EXCEPT ![t] = "set_relax_75"]
    /\ UNCHANGED <<bright_state, relax_state, water_level, mqtt_client, phase, frame,
                   round, snap, ret, prev, sim, touch, wifi, bits, boot, mqtt_last>>

\* Line 75 publishing the flag's value from before the call.
set_relax_75_publishes_old(t) ==
    /\ pc[t] = "set_relax_75"
    /\ log' = log \o publish_light_state(t, "relax", round.pre.relax)
    /\ pc' = [pc EXCEPT ![t] = "idle"]
    /\ frame' = [frame EXCEPT ![t] = NoFrame]
    /\ UNCHANGED <<bright_state, relax_state, water_level, mqtt_client, phase, round,
                   snap, ret, prev, sim, touch, wifi, bits, boot, mqtt_last>>

\* publish_light_state("relax", state); and return.
set_relax_75(t) ==
    /\ pc[t] = "set_relax_75"
    /\ log' = log \o publish_light_state(t, "relax", frame[t].state)
    /\ pc' = [pc EXCEPT ![t] = "idle"]
    /\ frame' = [frame EXCEPT ![t] = NoFrame]
    /\ UNCHANGED <<bright_state, relax_state, water_level, mqtt_client, phase, round,
                   snap, ret, prev, sim, touch, wifi, bits, boot, mqtt_last>>

----------------------------------------------------------------------------
(* backend_toggle_bright / backend_toggle_relax *)

\* A toggle that always turns the mode on.
Negate_always_on(current) == 1

\* The argument of the nested set call: current == 0 ? 1 : 0
Negate(current) == IF current = 0 THEN 1 ELSE 0

\* uint8_t current = backend_get_bright_state(); then the call of
\* backend_set_bright(current == 0 ? 1 : 0) binds its parameter.
toggle_bright_83(t) ==
    /\ pc[t] = "toggle_bright_83"
    /\ frame' = [frame EXCEPT ![t].current = backend_get_bright_state,
                              ![t].state = Negate(backend_get_bright_state)]
    /\ pc' = [pc EXCEPT ![t] = "set_bright_45"]
    /\ UNCHANGED <<bright_state, relax_state, water_level, mqtt_client, phase, log,
                   round, snap, ret, prev, sim, touch, wifi, bits, boot, mqtt_last>>

\* uint8_t current = backend_get_relax_state(); then the call of
\* backend_set_relax(current == 0 ? 1 : 0) binds its parameter.
toggle_relax_92(t) ==
    /\ pc[t] = "toggle_relax_92"
    /\ frame' = [frame EXCEPT ![t].current = backend_get_relax_state,
                              ![t].state = Negate(backend_get_relax_state)]
    /\ pc' = [pc EXCEPT ![t] = "set_relax_65"]
    /\ UNCHANGED <<bright_state, relax_state, water_level, mqtt_client, phase, log,
                   round, snap, ret, prev, sim, touch, wifi, bits, boot, mqtt_last>>

----------------------------------------------------------------------------
(* backend_update_water_level(uint8_t level) *)

\* The clamp with its bound off by a factor: level > 1000 never holds.
ClampLevel_never(level) == IF level > 1000 THEN WATER_LEVEL_MAX ELSE level

\* if (level > 100) level = 100;
ClampLevel(level) == IF level > WATER_LEVEL_MAX THEN WATER_LEVEL_MAX ELSE level

\* Line 127 storing into the wrong static.
update_water_level_124_wrong_static(t) ==
    /\ pc[t] = "update_water_level_124"
    /\ frame' = [frame EXCEPT ![t].level = ClampLevel(frame[t].level)]
    /\ bright_state' = ClampLevel(frame[t].level)
    /\ pc' = [pc EXCEPT ![t] = "update_water_level_131"]
    /\ ret' = NoRet
    /\ UNCHANGED <<relax_state, water_level, mqtt_client, phase, log, round, snap, prev,
                   sim, touch, wifi, bits, boot, mqtt_last>>

\* The clamp of the parameter, then water_level = level;
update_water_level_124(t) ==
    /\ pc[t] = "update_water_level_124"
    /\ frame' = [frame EXCEPT ![t].level = ClampLevel(frame[t].level)]
    /\ water_level' = ClampLevel(frame[t].level)
    /\ pc' = [pc EXCEPT ![t] = "update_water_level_131"]
    /\ ret' = NoRet
    /\ UNCHANGED <<bright_state, relax_state, mqtt_client, phase, log, round, snap,
                   prev, sim, touch, wifi, bits, boot, mqtt_last>>

\* ui_update_water_level_async((int)level); and return.
update_water_level_131(t) ==
    /\ pc[t] = "update_water_level_131"
    /\ log' = Append(log, Ev(t, "ui_update_water_level_async", "", frame[t].level))
    /\ pc' = [pc EXCEPT ![t] = "idle"]
    /\ frame' = [frame EXCEPT ![t] = NoFrame]
    /\ UNCHANGED <<bright_state, relax_state, water_level, mqtt_client, phase, round,
                   snap, ret, prev, sim, touch, wifi, bits, boot, mqtt_last>>

----------------------------------------------------------------------------
(* mqtt_event_handler, case MQTT_EVENT_DATA *)

\* strncmp(topic, s2, n) == 0, where topic holds n characters (none of them
\* NUL) and s2 is a NUL-terminated literal: the first n characters agree.
\* Past the end of s2 its terminator differs from any character of topic.
StrncmpEqual(topic, s2, n) ==
    \A i \in 1..n : i <= Len(s2) /\ topic[i] = s2[i]

IsSpace(c) == c \in {" ", "\t", "\n", "\r", "\f"}
IsDigit(c) == c \in {"0", "1", "2", "3", "4", "5", "6", "7", "8", "9"}
DigitValue(c) ==
    CASE c = "0" -> 0 [] c = "1" -> 1 [] c = "2" -> 2 [] c = "3" -> 3
      [] c = "4" -> 4 [] c = "5" -> 5 [] c = "6" -> 6 [] c = "7" -> 7
      [] c = "8" -> 8 [] c = "9" -> 9

\* The digits of str from position i on, read as decimal onto acc.
RECURSIVE AtoiDigits(_, _, _)
AtoiDigits(str, i, acc) ==
    IF i > Len(str) \/ ~IsDigit(str[i])
    THEN acc
    ELSE AtoiDigits(str, i + 1, acc * 10 + DigitValue(str[i]))

\* The first position of str from i on that holds no white space.
RECURSIVE SkipSpace(_, _)
SkipSpace(str, i) ==
    IF i <= Len(str) /\ IsSpace(str[i]) THEN SkipSpace(str, i + 1) ELSE i

\* atoi(str): white space, an optional sign, then digits up to the first
\* other character; 0 when there is no digit.  (Values within int.)
atoi(str) ==
    LET i == SkipSpace(str, 1)
    IN  IF i <= Len(str) /\ str[i] = "-" THEN 0 - AtoiDigits(str, i + 1, 0)
        ELSE IF i <= Len(str) /\ str[i] = "+" THEN AtoiDigits(str, i + 1, 0)
        ELSE AtoiDigits(str, i, 0)

\* The copy with no cap: int len = event->data_len;
CopyLen_uncapped(data_len) == data_len

\* int len = event->data_len < 15 ? event->data_len : 15;  the number of
\* characters memcpy writes at data_str[0..len-1], and the index of the '\0'.
CopyLen(data_len) == IF data_len < DATA_STR_MAX THEN data_len ELSE DATA_STR_MAX

\* The calls the handler makes for a data event with the given topic and
\* payload: on a topic match, data_str is the first min(data_len, 15)
\* characters and ui_update_water_level_async(atoi(data_str)) is called.
handle_data(topic, data) ==
    IF StrncmpEqual(topic, MQTT_TOPIC_WATER_LEVEL, Len(topic))
    THEN LET len == CopyLen(Len(data))
             data_str == SubSeq(data, 1, len)
         IN  <<Ev("net", "ui_update_water_level_async", "", atoi(data_str))>>
    ELSE <<>>

\* The MQTT task runs mqtt_event_handler for one MQTT_EVENT_DATA event.  The
\* client delivers events from esp_mqtt_client_start on (the end of
\* mqtt_init), and only if it was created.
mqtt_event_data(topic, data) ==
    /\ MqttStarted
    /\ mqtt_client # NULL
    /\ pc["net"] = "idle"
    /\ IF AllIdle
       THEN /\ round' = [pre |-> CurState,
                         calls |-> <<CallRec("net", "mqtt_event_handler", 0, topic, data)>>]
            /\ log' = handle_data(topic, data)
            /\ prev' = Closed
       ELSE /\ round' = [round EXCEPT !.calls =
                             Append(@, CallRec("net", "mqtt_event_handler", 0, topic, data))]
            /\ log' = log \o handle_data(topic, data)
            /\ prev' = prev
    /\ UNCHANGED <<bright_state, relax_state, water_level, mqtt_client, phase, pc,
                   frame, snap, ret, sim, touch, wifi, bits, boot, mqtt_last>>

----------------------------------------------------------------------------
(* mqtt_event_handler: the other events.  The MQTT task handles one event  *)
(* at a time.                                                              *)

\* The handler runs for an event of kind id and makes the calls entries.
HandleEvent(id, entries) ==
    /\ MqttStarted
    /\ mqtt_client # NULL
    /\ pc["net"] = "idle"
    /\ IF AllIdle
       THEN /\ round' = [pre |-> CurState, calls |-> <<CallRec("net", id, 0, <<>>, <<>>)>>]
            /\ log' = entries
            /\ prev' = Closed
       ELSE /\ round' = [round EXCEPT !.calls = Append(@, CallRec("net", id, 0, <<>>, <<>>))]
            /\ log' = log \o entries
            /\ prev' = prev

\* esp_mqtt_client_subscribe(mqtt_client, MQTT_TOPIC_WATER_LEVEL, 1)
Subscribe == Ev("net", "esp_mqtt_client_subscribe", "sensecap/indicator/water/level", 1)

\* A handler that subscribes only when the bit was not yet set.
mqtt_event_connected_subscribes_once ==
    /\ HandleEvent("MQTT_EVENT_CONNECTED",
                   IF "MQTT_CONNECTED_BIT" \in bits THEN <<>> ELSE <<Subscribe>>)
    /\ bits' = bits \cup {"MQTT_CONNECTED_BIT"}
    /\ mqtt_last' = "MQTT_EVENT_CONNECTED"
    /\ UNCHANGED <<bright_state, relax_state, water_level, mqtt_client, phase, pc,
                   frame, snap, ret, sim, touch, wifi, boot>>

\* case MQTT_EVENT_CONNECTED: xEventGroupSetBits(.., MQTT_CONNECTED_BIT);
\* esp_mqtt_client_subscribe(..);
mqtt_event_connected ==
    /\ HandleEvent("MQTT_EVENT_CONNECTED", <<Subscribe>>)
    /\ bits' = bits \cup {"MQTT_CONNECTED_BIT"}
    /\ mqtt_last' = "MQTT_EVENT_CONNECTED"
    /\ UNCHANGED <<bright_state, relax_state, water_level, mqtt_client, phase, pc,
                   frame, snap, ret, sim, touch, wifi, boot>>

\* case MQTT_EVENT_DISCONNECTED: xEventGroupClearBits(.., MQTT_CONNECTED_BIT);
mqtt_event_disconnected ==
    /\ HandleEvent("MQTT_EVENT_DISCONNECTED", <<>>)
    /\ bits' = bits \ {"MQTT_CONNECTED_BIT"}
    /\ mqtt_last' = "MQTT_EVENT_DISCONNECTED"
    /\ UNCHANGED <<bright_state, relax_state, water_level, mqtt_client, phase, pc,
                   frame, snap, ret, sim, touch, wifi, boot>>

\* case MQTT_EVENT_ERROR, and default: nothing but a log line.
mqtt_event_error ==
    /\ HandleEvent("MQTT_EVENT_ERROR", <<>>)
    /\ UNCHANGED <<bright_state, relax_state, water_level, mqtt_client, phase, pc,
                   frame, snap, ret, sim, touch, wifi, bits, boot,
                   mqtt_last>>

----------------------------------------------------------------------------
(* An observer task reads both flags through the getters.  The two reads   *)
(* are taken at one instant: the observer sees a state the backend is      *)
(* really in, between two statements of the calls in progress.             *)

read_flags ==
    /\ LvglCreated
    /\ snap' = <<backend_get_bright_state, backend_get_relax_state>>
    /\ snap' # snap
    /\ UNCHANGED <<bright_state, relax_state, water_level, mqtt_client, phase, pc,
                   frame, log, round, ret, prev, sim, touch, wifi, bits, boot,
                   mqtt_last>>

----------------------------------------------------------------------------
(* A task calls a getter.  Each getter is one return statement that loads  *)
(* one static.                                                             *)

\* The getter fn returns val to its caller.
Return(fn, val) ==
    /\ LvglCreated
    /\ ret.fn = fn => ret.n < MaxReads
    /\ ret' = [fn |-> fn, val |-> val, n |-> IF ret.fn = fn THEN ret.n + 1 ELSE 1]

\* A getter that clears the flag it has read.
get_bright_state_clears ==
    /\ Return("backend_get_bright_state", backend_get_bright_state)
    /\ bright_state' = 0
    /\ UNCHANGED <<relax_state, water_level, mqtt_client, phase, pc, frame, log, round,
                   snap, prev, sim, touch, wifi, bits, boot, mqtt_last>>

get_bright_state ==
    /\ Return("backend_get_bright_state", backend_get_bright_state)
    /\ UNCHANGED <<bright_state, relax_state, water_level, mqtt_client, phase, pc,
                   frame, log, round, snap, prev, sim, touch, wifi, bits, boot,
                   mqtt_last>>

get_relax_state ==
    /\ Return("backend_get_relax_state", backend_get_relax_state)
    /\ UNCHANGED <<bright_state, relax_state, water_level, mqtt_client, phase, pc,
                   frame, log, round, snap, prev, sim, touch, wifi, bits, boot,
                   mqtt_last>>

get_water_level ==
    /\ Return("backend_get_water_level", backend_get_water_level)
    /\ UNCHANGED <<bright_state, relax_state, water_level, mqtt_client, phase, pc,
                   frame, log, round, snap, prev, sim, touch, wifi, bits, boot,
                   mqtt_last>>

----------------------------------------------------------------------------
(* Simulator backend (simulator/backend/backend.c): backend_get_water_level *)

\* The value returned now and the one returned before it.
Returned(level) ==
    <<level>> \o (IF Len(sim.returned) = 0 THEN <<>> ELSE <<sim.returned[1]>>)

\* The reversal at 95 left out: the level keeps rising.
sim_backend_get_water_level_no_upper ==
    LET level == sim.water_level + sim.direction
        direction == IF level <= 10 THEN 1 ELSE sim.direction
    IN  /\ sim' = [water_level |-> level, direction |-> direction,
                   returned |-> Returned(level)]
        /\ UNCHANGED <<bright_state, relax_state, water_level, mqtt_client, phase, pc,
                       frame, log, round, snap, ret, prev, touch, wifi, bits, boot,
                       mqtt_last>>

\* water_level += direction; if (water_level <= 10) direction = 1;
\* if (water_level >= 95) direction = -1; return water_level;
\* returned keeps the value returned and the one returned before it.
sim_backend_get_water_level ==
    LET level == sim.water_level + sim.direction
        up == IF level <= 10 THEN 1 ELSE sim.direction
        direction == IF level >= 95 THEN -1 ELSE up
    IN  /\ sim' = [water_level |-> level, direction |-> direction,
                   returned |-> Returned(level)]
        /\ UNCHANGED <<bright_state, relax_state, water_level, mqtt_client, phase, pc,
                       frame, log, round, snap, ret, prev, touch, wifi, bits, boot,
                       mqtt_last>>

----------------------------------------------------------------------------
(* Touch driver (touch_driver.c): touch_read_cb and the GT911 controller *)

\* Values of the GT911 status register: bit 0x80 is "buffer ready", the low
\* bits count the touch points.
StatusArgs == {0, 1, 128, 129}

\* Values of the four coordinate registers from GT911_REG_X_LOW on:
\* (0,0), (480,300), (0xFFFF,0x8000) and (1,255).
CoordArgs == {<<0, 0, 0, 0>>, <<224, 1, 44, 1>>, <<255, 255, 0, 128>>, <<1, 0, 255, 0>>}

\* status & 0x80
TouchDetected(status) == (status \div 128) % 2 = 1

\* The conversion of buf[0] | (buf[1] << 8) to int16_t.
ToInt16(v) == IF v % 65536 >= 32768 THEN (v % 65536) - 65536 ELSE v % 65536

\* The controller puts a new status and new coordinates in its registers.
gt911_report(status, buf) ==
    /\ touch' = [touch EXCEPT !.status = status, !.buf = buf]
    /\ UNCHANGED <<bright_state, relax_state, water_level, mqtt_client, phase, pc, frame,
                   log, round, snap, ret, prev, sim, wifi, bits, boot, mqtt_last>>

\* The clear of the status register made only after a successful coordinate read.
touch_read_cb_clears_on_success(status_ok, coord_ok, clear_ok) ==
    LET status == IF status_ok THEN touch.status ELSE 0
        x == ToInt16(touch.buf[1] + 256 * touch.buf[2])
        y == ToInt16(touch.buf[3] + 256 * touch.buf[4])
        detected == status_ok /\ TouchDetected(status)
        pressed == detected /\ coord_ok
    IN  /\ touch' =
             [status |-> IF pressed /\ clear_ok THEN 0 ELSE touch.status,
              buf |-> touch.buf,
              last_x |-> IF pressed THEN x ELSE touch.last_x,
              last_y |-> IF pressed THEN y ELSE touch.last_y,
              last_pressed |-> IF pressed THEN TRUE
                               ELSE IF status_ok /\ ~detected THEN FALSE
                               ELSE touch.last_pressed,
              state |-> IF pressed THEN "LV_INDEV_STATE_PRESSED"
                        ELSE "LV_INDEV_STATE_RELEASED",
              point |-> IF pressed THEN <<x, y>> ELSE touch.point,
              call |-> [n |-> 1, status_ok |-> status_ok, status |-> status,
                        coord_ok |-> coord_ok, buf |-> touch.buf,
                        clear_sent |-> pressed, clear_ok |-> clear_ok,
                        reg |-> touch.status,
                        status_after |-> IF pressed /\ clear_ok THEN 0 ELSE touch.status]]
        /\ UNCHANGED <<bright_state, relax_state, water_level, mqtt_client, phase, pc, frame,
                   log, round, snap, ret, prev, sim, wifi, bits, boot, mqtt_last>>

\* touch_read_cb(drv, data), called by LVGL's input polling.  status_ok,
\* coord_ok and clear_ok tell whether the I2C transfers of lines 95, 103 and
\* 128 return ESP_OK; coord_ok and clear_ok matter only when the transfer is
\* made.  status is the local of line 92: 0 unless the read filled it.
touch_read_cb(status_ok, coord_ok, clear_ok) ==
    LET status == IF status_ok THEN touch.status ELSE 0
        x == ToInt16(touch.buf[1] + 256 * touch.buf[2])
        y == ToInt16(touch.buf[3] + 256 * touch.buf[4])
        detected == status_ok /\ TouchDetected(status)
        pressed == detected /\ coord_ok
    IN  /\ touch' =
             [status |-> IF detected /\ clear_ok THEN 0 ELSE touch.status,
              buf |-> touch.buf,
              last_x |-> IF pressed THEN x ELSE touch.last_x,
              last_y |-> IF pressed THEN y ELSE touch.last_y,
              last_pressed |-> IF pressed THEN TRUE
                               ELSE IF status_ok /\ ~detected THEN FALSE
                               ELSE touch.last_pressed,
              state |-> IF pressed THEN "LV_INDEV_STATE_PRESSED"
                        ELSE "LV_INDEV_STATE_RELEASED",
              point |-> IF pressed THEN <<x, y>> ELSE touch.point,
              call |-> [n |-> 1, status_ok |-> status_ok, status |-> status,
                        coord_ok |-> coord_ok, buf |-> touch.buf,
                        clear_sent |-> detected, clear_ok |-> clear_ok,
                        reg |-> touch.status,
                        status_after |-> IF detected /\ clear_ok THEN 0 ELSE touch.status]]
        /\ UNCHANGED <<bright_state, relax_state, water_level, mqtt_client, phase, pc, frame,
                   log, round, snap, ret, prev, sim, wifi, bits, boot, mqtt_last>>

----------------------------------------------------------------------------
(* app_main from its first statement to the wait of line 204 *)

\* The state when app_main is entered: the event group is not yet created,
\* the WiFi manager not yet initialised.
InitBoot ==
    /\ bright_state = 0
    /\ relax_state = 0
    /\ water_level = WATER_LEVEL_DEFAULT
    /\ mqtt_client = NULL
    /\ phase = "nvs_init"
    /\ sim = SimInit
    /\ touch = TouchInit
    /\ wifi = "off"
    /\ bits = {}
    /\ boot = <<>>
    /\ mqtt_last = "none"
    /\ pc = [t \in Tasks |-> "idle"]
    /\ frame = [t \in Tasks |-> NoFrame]
    /\ log = <<>>
    /\ round = [pre |-> [bright |-> 0, relax |-> 0, water |-> WATER_LEVEL_DEFAULT],
                calls |-> <<>>]
    /\ snap = <<0, 0>>
    /\ ret = NoRet
    /\ prev = NoPrev

\* app_main completes the call it is at and goes on to the next statement.
Step(step, next) ==
    /\ phase = step
    /\ phase' = next
    /\ boot' = Append(boot, step)
    /\ UNCHANGED <<bright_state, relax_state, water_level, mqtt_client, pc, frame, log,
                   round, snap, ret, prev, sim, touch, bits, mqtt_last>>

\* ESP_ERROR_CHECK(nvs_init()): any result but ESP_OK aborts.
nvs_init(result) ==
    /\ phase = "nvs_init"
    /\ IF result = "ESP_OK"
       THEN /\ phase' = "xEventGroupCreate"
            /\ boot' = Append(boot, "nvs_init")
       ELSE /\ phase' = "abort"
            /\ boot' = boot
    /\ UNCHANGED <<bright_state, relax_state, water_level, mqtt_client, pc, frame, log,
                   round, snap, ret, prev, sim, touch, wifi, bits, mqtt_last>>

\* s_network_event_group = xEventGroupCreate(): a group with every bit clear.
xEventGroupCreate ==
    /\ Step("xEventGroupCreate", "display_init")
    /\ bits = {}
    /\ UNCHANGED wifi

display_init == Step("display_init", "touch_init") /\ UNCHANGED wifi

touch_init == Step("touch_init", "lv_init") /\ UNCHANGED wifi

lv_init == Step("lv_init", "display_driver_init") /\ UNCHANGED wifi

display_driver_init == Step("display_driver_init", "touch_driver_init") /\ UNCHANGED wifi

touch_driver_init == Step("touch_driver_init", "ui_init") /\ UNCHANGED wifi

ui_init == Step("ui_init", "wifi_init") /\ UNCHANGED wifi

wifi_init == Step("wifi_init", "wifi_connect") /\ wifi' = "initialised"

\* wifi_connect(CONFIG_WIFI_SSID, CONFIG_WIFI_PASSWORD) returns at once; the
\* WiFi manager connects in its own context.
wifi_connect == Step("wifi_connect", "xEventGroupWaitBits") /\ wifi' = "connecting"

\* xEventGroupWaitBits(s_network_event_group, WIFI_CONNECTED_BIT, pdFALSE,
\* pdTRUE, portMAX_DELAY): app_main goes on when the bit is set and stays
\* blocked, without a timeout, while it is clear.  The bit is not cleared on
\* exit.
xEventGroupWaitBits ==
    /\ phase = "xEventGroupWaitBits"
    /\ IF "WIFI_CONNECTED_BIT" \in bits
       THEN /\ phase' = "mqtt_init"
            /\ boot' = Append(boot, "xEventGroupWaitBits")
       ELSE /\ phase' = phase
            /\ boot' = boot
    /\ UNCHANGED <<bright_state, relax_state, water_level, mqtt_client, pc, frame, log,
                   round, snap, ret, prev, sim, touch, wifi, bits, mqtt_last>>

\* The WiFi manager gets its connection.  It receives no handle in
\* wifi_init() or wifi_connect(), and s_network_event_group is a static of
\* main.c: the manager's state changes, the bits of the group do not.
wifi_manager_connected ==
    /\ wifi = "connecting"
    /\ wifi' = "connected"
    /\ UNCHANGED <<bright_state, relax_state, water_level, mqtt_client, phase, pc,
                   frame, log, round, snap, ret, prev, sim, touch, bits, boot,
                   mqtt_last>>

----------------------------------------------------------------------------
(* Specifications *)

Startup ==
    \/ \E result \in {NULL, CLIENT} : mqtt_init(result)
    \/ backend_init
    \/ xTaskCreatePinnedToCore

\* One statement of a call in progress.
Statement(t) ==
    \/ set_bright_45(t) \/ set_bright_50(t) \/ set_bright_51(t) \/ set_bright_55(t)
    \/ set_relax_65(t) \/ set_relax_70(t) \/ set_relax_71(t) \/ set_relax_75(t)
    \/ toggle_bright_83(t) \/ toggle_relax_92(t)
    \/ update_water_level_124(t) \/ update_water_level_131(t)
    \/ backend_init_32(t) \/ backend_init_33(t) \/ backend_init_34(t)

\* A new call.
Call(t) ==
    \/ \E state \in StateArgs : call_set_bright(t, state)
    \/ \E state \in StateArgs : call_set_relax(t, state)
    \/ call_toggle_bright(t)
    \/ call_toggle_relax(t)
    \/ \E level \in LevelArgs : call_update_water_level(t, level)
    \/ call_backend_init(t)

\* A new call, of those that overlap.
CallConc(t) ==
    \/ \E state \in ConcStateArgs : call_set_bright(t, state)
    \/ \E state \in ConcStateArgs : call_set_relax(t, state)
    \/ call_toggle_bright(t)
    \/ call_toggle_relax(t)
    \/ \E level \in ConcLevelArgs : call_update_water_level(t, level)
    \/ call_backend_init(t)

\* An inbound data event.
Inbound == \E topic \in TopicArgs, data \in DataArgs : mqtt_event_data(topic, data)

InboundConc == \E topic \in ConcTopicArgs, data \in ConcDataArgs : mqtt_event_data(topic, data)

\* Calls made one after the other.
Next ==
    \/ Startup
    \/ \E t \in Tasks : (AllIdle /\ Call(t)) \/ Statement(t)
    \/ AllIdle /\ Inbound

Spec == Init /\ [][Next]_vars

\* Calls made one after the other, and an observer of the flags.
NextRead ==
    \/ Startup
    \/ \E t \in Tasks : (AllIdle /\ CallConc(t)) \/ Statement(t)
    \/ AllIdle /\ InboundConc
    \/ read_flags

SpecRead == Init /\ [][NextRead]_vars

\* Calls made one after the other, and getter calls at any point between
\* their statements.
NextGet ==
    \/ Startup
    \/ \E t \in Tasks : (AllIdle /\ CallConc(t)) \/ Statement(t)
    \/ AllIdle /\ InboundConc
    \/ get_bright_state
    \/ get_relax_state
    \/ get_water_level

SpecGet == Init /\ [][NextGet]_vars

\* The simulator: its render loop calls backend_get_water_level().
NextSim == sim_backend_get_water_level

SpecSim == Init /\ [][NextSim]_vars

\* The MQTT task alone: the events of the client, one after the other.
NextMqtt ==
    \/ Startup
    \/ mqtt_event_connected
    \/ mqtt_event_disconnected
    \/ mqtt_event_error
    \/ Inbound

SpecMqtt == Init /\ [][NextMqtt]_vars

\* The touch controller and LVGL's polling of it.
NextTouch ==
    \/ \E status \in StatusArgs, buf \in CoordArgs : gt911_report(status, buf)
    \/ \E status_ok, coord_ok, clear_ok \in BOOLEAN :
           touch_read_cb(status_ok, coord_ok, clear_ok)

SpecTouch == Init /\ [][NextTouch]_vars

\* The statements of app_main up to the wait.
AppMain ==
    \/ \E result \in {"ESP_OK", "ESP_FAIL"} : nvs_init(result)
    \/ xEventGroupCreate
    \/ display_init
    \/ touch_init
    \/ lv_init
    \/ display_driver_init
    \/ touch_driver_init
    \/ ui_init
    \/ wifi_init
    \/ wifi_connect
    \/ xEventGroupWaitBits

\* Startup from the entry of app_main, with the touch controller and the
\* WiFi manager running beside it.
NextBoot ==
    \/ AppMain
    \/ wifi_manager_connected
    \/ \E status \in StatusArgs, buf \in CoordArgs : gt911_report(status, buf)

\* The scheduler runs app_main whenever it can take a step, and the WiFi
\* manager gets its connection once asked to connect.
SpecBoot ==
    /\ InitBoot
    /\ [][NextBoot]_vars
    /\ WF_vars(AppMain)
    /\ WF_vars(wifi_manager_connected)

\* The two tasks call concurrently; their statements interleave.
NextConc ==
    \/ Startup
    \/ \E t \in Tasks : ((AllIdle \/ Len(round.calls) < MaxOverlap) /\ CallConc(t)) \/ Statement(t)
    \/ (AllIdle \/ Len(round.calls) < MaxOverlap) /\ InboundConc

SpecConc == Init /\ [][NextConc]_vars

----------------------------------------------------------------------------
(* Reading a finished round *)

\* No call is in progress and the last round's calls have all returned.
RoundDone == AllIdle /\ Len(round.calls) >= 1

\* The round was one call, made alone.
OneCall == RoundDone /\ Len(round.calls) = 1

\* The log entries of calls to fn, in order.
Entries(fn) == SelectSeq(log, LAMBDA e : e.fn = fn)

\* Positions in the log of the calls fn(str, num).
Positions(fn, str, num) ==
    {i \in 1..Len(log) : log[i].fn = fn /\ log[i].str = str /\ log[i].num = num}

SetOps == {"backend_set_bright", "backend_set_relax"}
BrightOps == {"backend_set_bright", "backend_toggle_bright"}
RelaxOps == {"backend_set_relax", "backend_toggle_relax"}

Max(a, b) == IF a > b THEN a ELSE b
Min(a, b) == IF a < b THEN a ELSE b

----------------------------------------------------------------------------
(* C1: whenever no backend call is in progress (after every completed call *)
(* of a sequence of set/toggle calls made one after the other, with any    *)
(* argument), the two getters are never both non-zero.                     *)
C1_MutualExclusion ==
    AllIdle => ~(backend_get_bright_state # 0 /\ backend_get_relax_state # 0)

\* backend_set_bright(255) has returned after relax was on: relax is off.
C1_Witness ==
    /\ OneCall
    /\ round.calls[1].op = "backend_set_bright"
    /\ round.calls[1].arg = 255
    /\ round.pre.relax # 0
    /\ backend_get_bright_state = 255
    /\ backend_get_relax_state = 0

(* C2: while a set call that turns a mode on is in progress and the other *)
(* mode was on, an observer that reads both flags together never finds     *)
(* both non-zero.                                                          *)
C2_NonTornUpdate ==
    ~(snap[1] # 0 /\ snap[2] # 0)

(* C3: when backend_set_bright(1) and backend_set_relax(1) run             *)
(* concurrently, once both have returned exactly one of the modes is on,   *)
(* as after either sequential order of the two calls.                      *)
C3_SerializedWrites ==
    ( /\ RoundDone
      /\ Len(round.calls) = 2
      /\ {round.calls[1].op, round.calls[2].op} = SetOps
      /\ round.calls[1].arg = 1
      /\ round.calls[2].arg = 1 )
        => <<bright_state, relax_state>> \in {<<1, 0>>, <<0, 1>>}

(* C4: when two callers run backend_toggle_bright() concurrently (or both  *)
(* backend_toggle_relax()), once both have returned the flag has the value *)
(* it had before the two toggles.                                          *)
C4_NoLostToggle ==
    /\ ( /\ RoundDone
         /\ Len(round.calls) = 2
         /\ round.calls[1].op = "backend_toggle_bright"
         /\ round.calls[2].op = "backend_toggle_bright" )
           => bright_state = round.pre.bright
    /\ ( /\ RoundDone
         /\ Len(round.calls) = 2
         /\ round.calls[1].op = "backend_toggle_relax"
         /\ round.calls[2].op = "backend_toggle_relax" )
           => relax_state = round.pre.relax

(* C5: after backend_update_water_level(x) has returned, for any integer   *)
(* x, backend_get_water_level() is max(0, min(100, x)).                    *)
C5_ClampAnyInteger ==
    (OneCall /\ round.calls[1].op = "backend_update_water_level")
        => backend_get_water_level = Max(0, Min(100, round.calls[1].arg))

(* C6: in every reachable state the stored water level is within 0..100.   *)
C6_WaterLevelRange ==
    backend_get_water_level \in 0..100

\* backend_update_water_level(255) has returned and stored 100.
C6_Witness ==
    /\ OneCall
    /\ round.calls[1].op = "backend_update_water_level"
    /\ round.calls[1].arg = 255
    /\ water_level = 100

----------------------------------------------------------------------------
(* Reading one call that turns a mode on or off *)

\* The call c, made from the state pre, is set_mode(Bright, on = 1): a set
\* with argument 1, or a toggle of a flag that was 0.
TurnsBrightOn(c, pre) ==
    \/ c.op = "backend_set_bright" /\ c.arg = 1
    \/ c.op = "backend_toggle_bright" /\ pre.bright = 0

TurnsRelaxOn(c, pre) ==
    \/ c.op = "backend_set_relax" /\ c.arg = 1
    \/ c.op = "backend_toggle_relax" /\ pre.relax = 0

\* The message the broker is to receive for mode and a state of 0, 1, 2 or 255.
Message(mode, n) ==
    CASE mode = "bright" /\ n = 0 -> "{\"mode\":\"bright\",\"state\":0}"
      [] mode = "bright" /\ n = 1 -> "{\"mode\":\"bright\",\"state\":1}"
      [] mode = "bright" /\ n = 2 -> "{\"mode\":\"bright\",\"state\":2}"
      [] mode = "bright" /\ n = 255 -> "{\"mode\":\"bright\",\"state\":255}"
      [] mode = "relax" /\ n = 0 -> "{\"mode\":\"relax\",\"state\":0}"
      [] mode = "relax" /\ n = 1 -> "{\"mode\":\"relax\",\"state\":1}"
      [] mode = "relax" /\ n = 2 -> "{\"mode\":\"relax\",\"state\":2}"
      [] mode = "relax" /\ n = 255 -> "{\"mode\":\"relax\",\"state\":255}"

\* What one finished call for mode must have logged through publish_light_state
\* when it set the flag to n: the call itself, and its message if sent.
PublishedOnce(mode, n, sent) ==
    /\ Len(Entries("publish_light_state")) = 1
    /\ Entries("publish_light_state")[1].str = mode
    /\ Entries("publish_light_state")[1].num = n
    /\ Len(Entries("esp_mqtt_client_publish")) = (IF sent THEN 1 ELSE 0)
    /\ \A i \in 1..Len(Entries("esp_mqtt_client_publish")) :
           Entries("esp_mqtt_client_publish")[i].str = Message(mode, n)

----------------------------------------------------------------------------
(* C7: a call that turns mode M on while the other mode O is on leaves O   *)
(* off, calls the UI refresh of O with 0 and publish_light_state(M, 1),    *)
(* the refresh first.                                                      *)
C7_ForcedOffOrder ==
    /\ (OneCall /\ TurnsBrightOn(round.calls[1], round.pre) /\ round.pre.relax # 0)
         => /\ backend_get_relax_state = 0
            /\ \E i \in Positions("ui_set_relax_state", "", 0) :
               \E j \in Positions("publish_light_state", "bright", 1) : i < j
    /\ (OneCall /\ TurnsRelaxOn(round.calls[1], round.pre) /\ round.pre.bright # 0)
         => /\ backend_get_bright_state = 0
            /\ \E i \in Positions("ui_set_bright_state", "", 0) :
               \E j \in Positions("publish_light_state", "relax", 1) : i < j

\* backend_set_bright(1) has returned, relax was on, the client exists.
C7_Witness ==
    /\ OneCall
    /\ round.calls[1].op = "backend_set_bright"
    /\ round.calls[1].arg = 1
    /\ round.pre.relax = 1
    /\ mqtt_client = CLIENT
    /\ relax_state = 0
    /\ Len(log) = 3

(* C8 as stated: from (off, off, w), set_mode(Bright, true) gives          *)
(* (on, off, w), one publish (bright, 1), no publish for relax and no      *)
(* refresh signal for relax; the same with the modes exchanged.            *)
C8_ScenarioA_NoRefresh ==
    /\ ( /\ OneCall
         /\ round.calls[1].op = "backend_set_bright"
         /\ round.calls[1].arg = 1
         /\ round.pre.bright = 0 /\ round.pre.relax = 0 )
           => /\ CurState = [bright |-> 1, relax |-> 0, water |-> round.pre.water]
              /\ Len(Entries("publish_light_state")) = 1
              /\ Positions("publish_light_state", "bright", 1) # {}
              /\ Len(Entries("ui_set_relax_state")) = 0
    /\ ( /\ OneCall
         /\ round.calls[1].op = "backend_set_relax"
         /\ round.calls[1].arg = 1
         /\ round.pre.bright = 0 /\ round.pre.relax = 0 )
           => /\ CurState = [bright |-> 0, relax |-> 1, water |-> round.pre.water]
              /\ Len(Entries("publish_light_state")) = 1
              /\ Positions("publish_light_state", "relax", 1) # {}
              /\ Len(Entries("ui_set_bright_state")) = 0

(* C8 as amended: from (off, off, w), set_mode(Bright, true) gives         *)
(* (on, off, w), one publish (bright, 1), no publish for relax, and one    *)
(* refresh signal for relax, with value 0, although relax was not on; the  *)
(* same with the modes exchanged.                                          *)
C8_ScenarioA ==
    /\ ( /\ OneCall
         /\ round.calls[1].op = "backend_set_bright"
         /\ round.calls[1].arg = 1
         /\ round.pre.bright = 0 /\ round.pre.relax = 0 )
           => /\ CurState = [bright |-> 1, relax |-> 0, water |-> round.pre.water]
              /\ Len(Entries("publish_light_state")) = 1
              /\ Positions("publish_light_state", "bright", 1) # {}
              /\ Len(Entries("ui_set_relax_state")) = 1
              /\ Entries("ui_set_relax_state")[1].num = 0
              /\ Len(Entries("ui_set_bright_state")) = 0
    /\ ( /\ OneCall
         /\ round.calls[1].op = "backend_set_relax"
         /\ round.calls[1].arg = 1
         /\ round.pre.bright = 0 /\ round.pre.relax = 0 )
           => /\ CurState = [bright |-> 0, relax |-> 1, water |-> round.pre.water]
              /\ Len(Entries("publish_light_state")) = 1
              /\ Positions("publish_light_state", "relax", 1) # {}
              /\ Len(Entries("ui_set_bright_state")) = 1
              /\ Entries("ui_set_bright_state")[1].num = 0
              /\ Len(Entries("ui_set_relax_state")) = 0

\* backend_set_relax(1) has returned, made from (off, off, 42).
C8_Witness ==
    /\ OneCall
    /\ round.calls[1].op = "backend_set_relax"
    /\ round.calls[1].arg = 1
    /\ round.pre = [bright |-> 0, relax |-> 0, water |-> 42]
    /\ CurState = [bright |-> 0, relax |-> 1, water |-> 42]

(* C9 as stated: every finished set or toggle call for mode M has sent     *)
(* exactly one message to the broker, for M with M's new value, also when  *)
(* there is no MQTT client.                                                *)
C9_AlwaysSent ==
    /\ (OneCall /\ round.calls[1].op \in BrightOps)
         => PublishedOnce("bright", backend_get_bright_state, TRUE)
    /\ (OneCall /\ round.calls[1].op \in RelaxOps)
         => PublishedOnce("relax", backend_get_relax_state, TRUE)

(* C9 as amended: every finished set or toggle call for mode M has called  *)
(* publish_light_state exactly once, for M with M's new value and never    *)
(* for the other mode; exactly one message was sent to the broker when     *)
(* mqtt_client is not NULL, and none when it is NULL.                      *)
C9_PublishEveryCall ==
    /\ (OneCall /\ round.calls[1].op \in BrightOps)
         => PublishedOnce("bright", backend_get_bright_state, mqtt_client # NULL)
    /\ (OneCall /\ round.calls[1].op \in RelaxOps)
         => PublishedOnce("relax", backend_get_relax_state, mqtt_client # NULL)

\* backend_set_bright(1) has returned with bright already on and no client.
C9_Witness ==
    /\ OneCall
    /\ round.calls[1].op = "backend_set_bright"
    /\ round.calls[1].arg = 1
    /\ round.pre.bright = 1
    /\ mqtt_client = NULL
    /\ Len(log) = 2

(* C10: every message sent on the light-state topic names the mode         *)
(* "bright" or "relax" and carries the state 0 or 1, whatever uint8_t      *)
(* argument the set call was given.                                        *)
C10_MessageShape ==
    \A i \in 1..Len(log) :
        log[i].fn = "esp_mqtt_client_publish"
            => log[i].str \in {Message("bright", 0), Message("bright", 1),
                               Message("relax", 0), Message("relax", 1)}

----------------------------------------------------------------------------
(* C11: whenever no call is in progress, after any sequence of backend     *)
(* calls with any uint8_t arguments, both flag getters return 0 or 1.      *)
C11_BooleanGetters ==
    AllIdle => /\ backend_get_bright_state \in {0, 1}
               /\ backend_get_relax_state \in {0, 1}

\* The payloads that are decimal integers, with their values.
Decimal42 == <<"4", "2">>
Decimal150 == <<"1", "5", "0">>

(* C12: after the data handler has run for an event on the water-level     *)
(* topic with a decimal payload, backend_get_water_level() is the payload  *)
(* value clamped to 0..100 ("150" gives 100, "42" gives 42), and exactly   *)
(* one water-level refresh was signalled.                                  *)
C12_ScenarioC ==
    ( /\ OneCall
      /\ round.calls[1].op = "mqtt_event_handler"
      /\ round.calls[1].topic = MQTT_TOPIC_WATER_LEVEL
      /\ round.calls[1].data \in {Decimal42, Decimal150} )
        => /\ backend_get_water_level =
                  (IF round.calls[1].data = Decimal150 THEN 100 ELSE 42)
           /\ Len(Entries("ui_update_water_level_async")) = 1

(* C13: after the data handler has run for an event on the water-level     *)
(* topic whose payload is "abc" or empty, the device state is what it was  *)
(* and no water-level refresh was signalled.                               *)
C13_ScenarioD ==
    ( /\ OneCall
      /\ round.calls[1].op = "mqtt_event_handler"
      /\ round.calls[1].topic = MQTT_TOPIC_WATER_LEVEL
      /\ round.calls[1].data \in {<<"a", "b", "c">>, <<>>} )
        => /\ CurState = round.pre
           /\ Len(Entries("ui_update_water_level_async")) = 0

----------------------------------------------------------------------------
\* The device state a set or toggle call c must leave, made from the state pre.
NewValue(c, pre) ==
    CASE c.op = "backend_set_bright" -> c.arg
      [] c.op = "backend_set_relax" -> c.arg
      [] c.op = "backend_toggle_bright" -> (IF pre.bright = 0 THEN 1 ELSE 0)
      [] c.op = "backend_toggle_relax" -> (IF pre.relax = 0 THEN 1 ELSE 0)

ExpectedAfter(c, pre) ==
    IF c.op \in BrightOps
    THEN [bright |-> NewValue(c, pre),
          relax |-> IF NewValue(c, pre) # 0 THEN 0 ELSE pre.relax,
          water |-> pre.water]
    ELSE [bright |-> IF NewValue(c, pre) # 0 THEN 0 ELSE pre.bright,
          relax |-> NewValue(c, pre),
          water |-> pre.water]

(* C14: a finished set or toggle call has written the requested flag and,  *)
(* when turning the mode on, cleared the other one, whether its message    *)
(* was sent or skipped (mqtt_client NULL): the state it leaves does not    *)
(* depend on the publish.                                                  *)
C14_OptimisticState ==
    (OneCall /\ round.calls[1].op \in BrightOps \cup RelaxOps)
        => CurState = ExpectedAfter(round.calls[1], round.pre)

\* backend_set_relax(1) has returned with bright on before and no client:
\* nothing was sent and the state is (off, on).
C14_Witness ==
    /\ OneCall
    /\ round.calls[1].op = "backend_set_relax"
    /\ round.calls[1].arg = 1
    /\ round.pre.bright = 1
    /\ mqtt_client = NULL
    /\ Len(Entries("esp_mqtt_client_publish")) = 0
    /\ bright_state = 0
    /\ relax_state = 1

\* The calls of publish_light_state among the entries lg, as <<mode, state>>.
Publishes(lg) ==
    LET calls == SelectSeq(lg, LAMBDA e : e.fn = "publish_light_state")
    IN  [i \in 1..Len(calls) |-> <<calls[i].str, calls[i].num>>]

\* The messages handed to the MQTT client among the entries lg.
Messages(lg) ==
    LET sent == SelectSeq(lg, LAMBDA e : e.fn = "esp_mqtt_client_publish")
    IN  [i \in 1..Len(sent) |-> sent[i].str]

\* toggle_mode(mode), as the backend function op, was called twice in a row
\* from both flags off, and the second call has returned.
ToggledTwice(op) ==
    /\ OneCall
    /\ round.calls[1].op = op
    /\ prev.op = op
    /\ prev.pre.bright = 0
    /\ prev.pre.relax = 0

(* C15: from (off, off, x), two toggle_mode(M) calls made one after the    *)
(* other end in (off, off, x); publish_light_state was called exactly      *)
(* twice, for M with state 1 and then for M with state 0, and with an MQTT *)
(* client the two messages are M's with state 1 and then with state 0.     *)
C15_ScenarioE ==
    /\ ToggledTwice("backend_toggle_bright")
         => /\ CurState = prev.pre
            /\ Publishes(prev.log) \o Publishes(log) = <<<<"bright", 1>>, <<"bright", 0>>>>
            /\ mqtt_client # NULL =>
                   Messages(prev.log) \o Messages(log) =
                       <<"{\"mode\":\"bright\",\"state\":1}", "{\"mode\":\"bright\",\"state\":0}">>
    /\ ToggledTwice("backend_toggle_relax")
         => /\ CurState = prev.pre
            /\ Publishes(prev.log) \o Publishes(log) = <<<<"relax", 1>>, <<"relax", 0>>>>
            /\ mqtt_client # NULL =>
                   Messages(prev.log) \o Messages(log) =
                       <<"{\"mode\":\"relax\",\"state\":1}", "{\"mode\":\"relax\",\"state\":0}">>

\* backend_toggle_bright() twice from (off, off, 100) with an MQTT client.
C15_Witness ==
    /\ ToggledTwice("backend_toggle_bright")
    /\ prev.pre.water = 100
    /\ mqtt_client # NULL
    /\ Len(Messages(log)) = 1
    /\ CurState = [bright |-> 0, relax |-> 0, water |-> 100]

(* C16: every water-level refresh signalled to the UI, by                  *)
(* backend_update_water_level or by the data handler, carries a value in   *)
(* 0..100 that is the stored water level.                                  *)
C16_RenderConsistency ==
    \A i \in 1..Len(log) :
        log[i].fn = "ui_update_water_level_async"
            => /\ log[i].num \in 0..100
               /\ log[i].num = backend_get_water_level

\* The state after construction and after every backend_init().
InitialState == [bright |-> 0, relax |-> 0, water |-> WATER_LEVEL_DEFAULT]

(* C17: before backend_init() has been called the state is (off, off, 50), *)
(* the static initialisers; and when a backend_init() call has returned,   *)
(* at startup or again after any operations, the state is (off, off, 50).  *)
C17_InitState ==
    /\ phase \in {"mqtt_init", "backend_init"} => CurState = InitialState
    /\ (OneCall /\ round.calls[1].op = "backend_init") => CurState = InitialState

\* backend_init() was called again with relax on and the water level at 100.
C17_Witness ==
    /\ OneCall
    /\ round.calls[1].op = "backend_init"
    /\ round.calls[1].task \in Tasks
    /\ round.pre = [bright |-> 0, relax |-> 1, water |-> 100]
    /\ CurState = InitialState

\* The static a getter returns.
StaticOf(fn) ==
    CASE fn = "backend_get_bright_state" -> bright_state
      [] fn = "backend_get_relax_state" -> relax_state
      [] fn = "backend_get_water_level" -> water_level

(* C18: a step in which a getter returns leaves the three statics and the  *)
(* MQTT client as they were and makes no call into the UI layer or the     *)
(* MQTT client; the value returned is the static's; and when the getter    *)
(* called before it was the same one and no static was written in between, *)
(* the value is the one returned before.                                   *)
C18_PureGetters ==
    [][ (ret' # ret /\ ret'.fn # "none")
          => /\ UNCHANGED <<bright_state, relax_state, water_level, mqtt_client, log>>
             /\ ret'.val = StaticOf(ret'.fn)
             /\ ret.fn = ret'.fn => ret'.val = ret.val ]_vars

\* backend_get_bright_state() has returned 1 twice in a row while a call
\* was in progress.
C18_Witness ==
    /\ ret.n = 2
    /\ ret.fn = "backend_get_bright_state"
    /\ ret.val = 1
    /\ ~AllIdle

(* C19: a finished call that turns mode M off (a set with argument 0, or a *)
(* toggle of a flag that was on) has set M's flag to 0 and left the other  *)
(* flag and the water level as they were, and signalled no UI refresh.     *)
C19_TurnOffLocal ==
    /\ ( /\ OneCall
         /\ \/ round.calls[1].op = "backend_set_bright" /\ round.calls[1].arg = 0
            \/ round.calls[1].op = "backend_toggle_bright" /\ round.pre.bright # 0 )
           => /\ CurState = [bright |-> 0, relax |-> round.pre.relax,
                             water |-> round.pre.water]
              /\ Len(Entries("ui_set_relax_state")) = 0
              /\ Len(Entries("ui_set_bright_state")) = 0
    /\ ( /\ OneCall
         /\ \/ round.calls[1].op = "backend_set_relax" /\ round.calls[1].arg = 0
            \/ round.calls[1].op = "backend_toggle_relax" /\ round.pre.relax # 0 )
           => /\ CurState = [bright |-> round.pre.bright, relax |-> 0,
                             water |-> round.pre.water]
              /\ Len(Entries("ui_set_relax_state")) = 0
              /\ Len(Entries("ui_set_bright_state")) = 0

\* backend_set_bright(0) has returned with relax on before: relax is still on.
C19_Witness ==
    /\ OneCall
    /\ round.calls[1].op = "backend_set_bright"
    /\ round.calls[1].arg = 0
    /\ round.pre.relax = 1
    /\ relax_state = 1
    /\ bright_state = 0

(* C20: a finished backend_update_water_level call has left both flags as  *)
(* they were and published no light state; a finished set or toggle call   *)
(* has left the water level as it was and signalled no water-level         *)
(* refresh.                                                                *)
C20_WaterAndModesApart ==
    /\ (OneCall /\ round.calls[1].op = "backend_update_water_level")
         => /\ bright_state = round.pre.bright
            /\ relax_state = round.pre.relax
            /\ Len(Entries("publish_light_state")) = 0
            /\ Len(Entries("esp_mqtt_client_publish")) = 0
    /\ (OneCall /\ round.calls[1].op \in BrightOps \cup RelaxOps)
         => /\ water_level = round.pre.water
            /\ Len(Entries("ui_update_water_level_async")) = 0

\* backend_update_water_level(150) has returned with bright on before.
C20_Witness ==
    /\ OneCall
    /\ round.calls[1].op = "backend_update_water_level"
    /\ round.calls[1].arg = 150
    /\ round.pre.bright = 1
    /\ bright_state = 1
    /\ water_level = 100

----------------------------------------------------------------------------
\* The arguments of the calls of fn among the entries lg.
Signals(lg, fn) ==
    LET calls == SelectSeq(lg, LAMBDA e : e.fn = fn)
    IN  [i \in 1..Len(calls) |-> calls[i].num]

\* The set function op was called twice in a row with the same argument, and
\* the second call has returned.
SetTwice(op) ==
    /\ OneCall
    /\ round.calls[1].op = op
    /\ prev.op = op
    /\ prev.arg = round.calls[1].arg

\* What a set call for mode with argument arg emits: one publish for mode,
\* and one refresh of the other mode with 0 when arg is not 0.
EmitsOnce(lg, mode, refresh, own, arg) ==
    /\ Publishes(lg) = <<<<mode, arg>>>>
    /\ Signals(lg, refresh) = (IF arg # 0 THEN <<0>> ELSE <<>>)
    /\ Signals(lg, own) = <<>>

(* C21: when set_mode(M, on) is called twice in a row, the state after the *)
(* second call is the state after the first, and each of the two calls     *)
(* made one publish for M and, when on is not 0, one refresh of the other  *)
(* mode with value 0.                                                      *)
C21_Idempotent ==
    /\ SetTwice("backend_set_bright")
         => /\ CurState = round.pre
            /\ EmitsOnce(prev.log, "bright", "ui_set_relax_state", "ui_set_bright_state",
                         prev.arg)
            /\ EmitsOnce(log, "bright", "ui_set_relax_state", "ui_set_bright_state",
                         prev.arg)
    /\ SetTwice("backend_set_relax")
         => /\ CurState = round.pre
            /\ EmitsOnce(prev.log, "relax", "ui_set_bright_state", "ui_set_relax_state",
                         prev.arg)
            /\ EmitsOnce(log, "relax", "ui_set_bright_state", "ui_set_relax_state",
                         prev.arg)

\* backend_set_relax(1) twice in a row, the first with bright on.
C21_Witness ==
    /\ SetTwice("backend_set_relax")
    /\ prev.arg = 1
    /\ prev.pre = [bright |-> 1, relax |-> 0, water |-> 100]
    /\ CurState = [bright |-> 0, relax |-> 1, water |-> 100]
    /\ Len(log) >= 2

----------------------------------------------------------------------------
\* The mode combination of a device state: which flags are on.
Combo(st) == <<st.bright # 0, st.relax # 0>>

OffOff == <<FALSE, FALSE>>
OnOff == <<TRUE, FALSE>>
OffOn == <<FALSE, TRUE>>

\* The one call of the round was op with argument arg, and has returned.
Did(op, arg) == OneCall /\ round.calls[1].op = op /\ round.calls[1].arg = arg

(* C22: with no call in progress the mode combination is (off,off),        *)
(* (on,off) or (off,on), never (on,on); a set or toggle call can start     *)
(* whenever no call is in progress; and the calls lead from each           *)
(* combination to each other one: set_mode(Bright, true) ends in (on,off)  *)
(* and set_mode(Relax, true) in (off,on) from anywhere, set_mode(M, false) *)
(* and toggle_mode(M) of the mode that is on end in (off,off).             *)
C22_ReachableCombos ==
    /\ AllIdle => Combo(CurState) \in {OffOff, OnOff, OffOn}
    /\ (phase = "run" /\ AllIdle)
         => /\ ENABLED call_set_bright("ui", 1)
            /\ ENABLED call_set_relax("ui", 1)
            /\ ENABLED call_set_bright("ui", 0)
            /\ ENABLED call_set_relax("ui", 0)
            /\ ENABLED call_toggle_bright("ui")
            /\ ENABLED call_toggle_relax("ui")
    /\ Did("backend_set_bright", 1) => Combo(CurState) = OnOff
    /\ Did("backend_set_relax", 1) => Combo(CurState) = OffOn
    /\ (Did("backend_set_bright", 0) /\ Combo(round.pre) = OnOff) => Combo(CurState) = OffOff
    /\ (Did("backend_set_relax", 0) /\ Combo(round.pre) = OffOn) => Combo(CurState) = OffOff
    /\ (Did("backend_toggle_bright", 0) /\ Combo(round.pre) = OnOff)
         => Combo(CurState) = OffOff
    /\ (Did("backend_toggle_relax", 0) /\ Combo(round.pre) = OffOn)
         => Combo(CurState) = OffOff
    /\ (Did("backend_toggle_bright", 0) /\ Combo(round.pre) # OnOff)
         => Combo(CurState) = OnOff
    /\ (Did("backend_toggle_relax", 0) /\ Combo(round.pre) # OffOn)
         => Combo(CurState) = OffOn

\* Two calls in a row went through all three combinations and back:
\* (off,on), then (on,off) by toggle_mode(Bright), then (off,off) by
\* set_mode(Bright, false).
C22_Witness ==
    /\ Did("backend_set_bright", 0)
    /\ prev.op = "backend_toggle_bright"
    /\ Combo(prev.pre) = OffOn
    /\ Combo(round.pre) = OnOff
    /\ Combo(CurState) = OffOff

----------------------------------------------------------------------------
(* C23: in the simulator, every value backend_get_water_level() returns,   *)
(* starting from the level 75, lies in 0..100: it lies in 10..95, differs  *)
(* by one from the value returned before, and the direction is upwards at  *)
(* 10 and downwards at 95.                                                 *)
C23_SimulatorBand ==
    /\ \A i \in 1..Len(sim.returned) :
           /\ sim.returned[i] \in 0..100
           /\ sim.returned[i] \in 10..95
    /\ Len(sim.returned) = 2
         => sim.returned[1] - sim.returned[2] \in {-1, 1}
    /\ sim.water_level = 10 => sim.direction = 1
    /\ sim.water_level = 95 => sim.direction = -1

\* The level has gone down to 10, up to 95 and has turned down again.
C23_Witness == sim.returned = <<94, 95>>

----------------------------------------------------------------------------
\* The states published for mode in the last two rounds, oldest first.
PublishedFor(mode) ==
    LET all == Publishes(prev.log) \o Publishes(log)
        own == SelectSeq(all, LAMBDA p : p[1] = mode)
    IN  [i \in 1..Len(own) |-> own[i][2]]

\* What a consumer of the light-state topic holds for mode, given the flag it
\* would hold with nothing published: the last state published for it.
BrokerView(mode, unknown) ==
    IF Len(PublishedFor(mode)) = 0 THEN unknown
    ELSE PublishedFor(mode)[Len(PublishedFor(mode))]

\* A set or toggle call has returned and every publish was handed to the client.
Delivered ==
    /\ OneCall
    /\ round.calls[1].op \in BrightOps \cup RelaxOps
    /\ mqtt_client # NULL
    /\ Len(Messages(prev.log) \o Messages(log)) = Len(Publishes(prev.log) \o Publishes(log))

----------------------------------------------------------------------------
(* C25: the data handler signals a water-level refresh exactly when the    *)
(* event's topic is "sensecap/indicator/water/level"; for an empty topic,  *)
(* a proper prefix of it or any other topic it signals nothing; and it     *)
(* never changes the device state.                                         *)
C25_TopicFilter ==
    (OneCall /\ round.calls[1].op = "mqtt_event_handler")
        => /\ (Len(Entries("ui_update_water_level_async")) > 0)
                 <=> (round.calls[1].topic = MQTT_TOPIC_WATER_LEVEL)
           /\ CurState = round.pre

----------------------------------------------------------------------------
\* The data handler ran for an event on the water-level topic with payload
\* data, and has returned.
Handled(data) ==
    /\ OneCall
    /\ round.calls[1].op = "mqtt_event_handler"
    /\ round.calls[1].topic = MQTT_TOPIC_WATER_LEVEL
    /\ round.calls[1].data = data

Zeros15 == [i \in 1..15 |-> "0"]

(* C30: for every water-level message the handler copies at most 15        *)
(* payload characters into data_str[16] and writes the terminator at an    *)
(* index in 0..15, inside the buffer; a payload longer than 15 characters  *)
(* is parsed from its first 15 only: fifteen zeros followed by "19" gives  *)
(* 0, and a payload of exactly 15 characters is parsed whole.              *)
C30_CopyBound ==
    /\ \A data \in DataArgs :
           Handled(data)
             => /\ CopyLen(Len(data)) \in 0..15
                /\ CopyLen(Len(data)) < DATA_STR_SIZE
                /\ CopyLen(Len(data)) <= Len(data)
                /\ Len(data) <= 15 => CopyLen(Len(data)) = Len(data)
    /\ Handled(Zeros15 \o <<"1", "9">>)
         => Signals(log, "ui_update_water_level_async") = <<0>>
    /\ Handled(SubSeq(Zeros15, 1, 13) \o <<"4", "2">>)
         => Signals(log, "ui_update_water_level_async") = <<42>>

\* The handler has run for the 17-character payload.
C30_Witness ==
    /\ Handled(Zeros15 \o <<"1", "9">>)
    /\ Signals(log, "ui_update_water_level_async") = <<0>>

----------------------------------------------------------------------------
(* C28: MQTT_CONNECTED_BIT is set exactly when the last of the CONNECTED / *)
(* DISCONNECTED events handled was CONNECTED (DATA and ERROR events leave  *)
(* it as it is), and every CONNECTED event, a reconnect too, subscribes    *)
(* once to the water-level topic.                                          *)
C28_ConnectedBit ==
    /\ ("MQTT_CONNECTED_BIT" \in bits) <=> (mqtt_last = "MQTT_EVENT_CONNECTED")
    /\ (OneCall /\ round.calls[1].op = "MQTT_EVENT_CONNECTED")
         => /\ Len(Entries("esp_mqtt_client_subscribe")) = 1
            /\ Entries("esp_mqtt_client_subscribe")[1].str = "sensecap/indicator/water/level"
    /\ (OneCall /\ round.calls[1].op \in {"MQTT_EVENT_DISCONNECTED", "MQTT_EVENT_ERROR",
                                         "mqtt_event_handler"})
         => Len(Entries("esp_mqtt_client_subscribe")) = 0

\* An ERROR event was handled after a CONNECTED event: the bit is still set.
C28_Witness ==
    /\ OneCall
    /\ round.calls[1].op = "MQTT_EVENT_ERROR"
    /\ mqtt_last = "MQTT_EVENT_CONNECTED"
    /\ "MQTT_CONNECTED_BIT" \in bits

----------------------------------------------------------------------------
\* What the last touch_read_cb call met, and what it reported.
TouchCalled == touch.call.n = 1
StatusRead == touch.call.status_ok
Detected == StatusRead /\ touch.call.status \in {128, 129}
CoordRead == Detected /\ touch.call.coord_ok
Pressed == touch.state = "LV_INDEV_STATE_PRESSED"
Released == touch.state = "LV_INDEV_STATE_RELEASED"

\* The reported point is the two 16-bit little-endian values of the registers.
PointAsRead ==
    /\ touch.point[1] % 65536 = touch.call.buf[1] + 256 * touch.call.buf[2]
    /\ touch.point[2] % 65536 = touch.call.buf[3] + 256 * touch.call.buf[4]
    /\ touch.point[1] \in -32768..32767
    /\ touch.point[2] \in -32768..32767

(* C29: touch_read_cb reports PRESSED only when the status read succeeded, *)
(* bit 0x80 was set and the coordinate read succeeded, and then the point  *)
(* is the coordinates read; in every other case it reports RELEASED; and   *)
(* after every detected touch the status register is cleared (reads 0      *)
(* when the call returns), whether or not the coordinate read succeeded.   *)
C29_TouchOutcome ==
    TouchCalled
      => /\ Pressed <=> CoordRead
         /\ Pressed => PointAsRead
         /\ ~CoordRead => Released
         /\ Detected => touch.call.status_after = 0

(* C29 as amended: the same outcomes, and after every detected touch,      *)
(* whether or not the coordinate read succeeded, the write that clears the *)
(* status register is made, and in no other case; the register reads 0     *)
(* when that transfer succeeded and keeps its value when it failed.        *)
C29_TouchOutcomeClearSent ==
    TouchCalled
      => /\ Pressed <=> CoordRead
         /\ Pressed => PointAsRead
         /\ ~CoordRead => Released
         /\ touch.call.clear_sent <=> Detected
         /\ (Detected /\ touch.call.clear_ok) => touch.call.status_after = 0
         /\ ~(Detected /\ touch.call.clear_ok) => touch.call.status_after = touch.call.reg

\* A touch was detected, the coordinate read failed, and the clear was made.
C29_Witness ==
    /\ TouchCalled
    /\ Detected
    /\ ~touch.call.coord_ok
    /\ Released
    /\ touch.call.clear_sent
    /\ touch.call.clear_ok
    /\ touch.call.status = 129
    /\ touch.call.status_after = 0


\* app_main has gone past the wait of line 204.
WaitPassed == phase \in {"mqtt_init", "backend_init", "xTaskCreatePinnedToCore", "run"}

(* C26: under fair scheduling, once the WiFi manager has connected,        *)
(* app_main eventually passes the wait on WIFI_CONNECTED_BIT (and goes on  *)
(* to mqtt_init, backend_init and the creation of the two tasks).          *)
C26_StartupLiveness == (wifi = "connected") ~> WaitPassed


\* app_main has completed step.
Done(step) == \E i \in 1..Len(boot) : boot[i] = step

\* Whenever app_main has completed step b, it had completed step a before.
Precedes(a, b) ==
    \A j \in 1..Len(boot) : boot[j] = b => \E i \in 1..(j - 1) : boot[i] = a

====
